---- MODULE Spec2Model ----
(***************************************************************************)
(* Model of tokio-rusqlite (src/src/lib.rs): a cloneable Connection handle *)
(* that sends Message::Execute / Message::Close over an unbounded          *)
(* crossbeam channel to one worker thread owning the rusqlite connection,  *)
(* with one oneshot channel per call / close / open for the outcome.       *)
(*                                                                         *)
(* A future exists from its first poll until it returns or is dropped; the *)
(* value it returned is kept in lastRet until the next future returns.     *)
(***************************************************************************)
EXTENDS Integers, Sequences, FiniteSets, TLC

\* ---- bounds -------------------------------------------------------------
\* futures created over a run, Sender<Message> values alive at once,
\* messages waiting in the channel, futures dropped while they await
MaxOps == 4
MaxHandles == 2
MaxQueue == 2
MaxCancels == 1

OpIds == 1..MaxOps
\* a Connection value is one made by open() / clone(), or one that came back
\* inside Error::Close; values of one kind are interchangeable
HandleKinds == {"made", "returned"}

\* ---- inputs -------------------------------------------------------------
\* errors the initializer passed to start() may return
InitErrors == {"CannotOpen", "NotADatabase"}
\* what the closure passed to Connection::call turns out to do once it runs;
\* it returns Result<R, Error> and may build any variant of Error itself
CallUnits == {"leak", "finalize", "sqlerr", "other", "closederr"}
\* the same for Connection::call_unwrap (the closure returns a plain value)
UnwrapUnits == {"ok"}
UnitsOf(kind) == IF kind = "call" THEN CallUnits ELSE UnwrapUnits

BUG_TEXT == "bug in tokio-rusqlite, please report"

VARIABLES
    wpc,          \* position of the worker thread closure of start()
    exitCause,    \* why the worker left its loop
    conn,         \* the rusqlite::Connection owned by the worker
    queue,        \* crossbeam channel: the messages in flight
    running,      \* messages whose closure is currently running on conn
    ops,          \* the live futures of call / call_unwrap / close
    chan,         \* the oneshot channel of each op
    handles,      \* number of Connection values at rest, per kind
    startChan,    \* oneshot result_sender / result_receiver of start()
    openSt,       \* the future of Connection::open
    openRes,      \* what Connection::open returned
    nextOp,       \* next unused op id
    cancels,      \* number of futures dropped while awaiting
    lastRet,      \* the future that returned last, and what it returned
    lastStarted,  \* history: id of the unit the worker started last
    produced,     \* history: what the unit of an awaited call returned
    seen,         \* history: what an awaited Close request met at the worker
    closeOkAt,    \* history: first op id issued after a close returned Ok
    firstCloseReq,\* history: op id of the first close, 0 if none
    closeFailed,  \* history: some conn.close() has failed
    closedAt,     \* history: op id of the Close whose conn.close() succeeded
    initErr       \* history: the error the initializer returned, if any

vars == <<wpc, exitCause, conn, queue, running, ops, chan, handles,
          startChan, openSt, openRes, nextOp, cancels, lastRet, lastStarted,
          produced, seen, closeOkAt, firstCloseReq, closeFailed, closedAt, initErr>>

\* ---- Error / Result -----------------------------------------------------
Res(tag, variant, v, h, cause) ==
    [tag |-> tag, variant |-> variant, v |-> v, h |-> h, cause |-> cause]

NoResult == Res("None", "", 0, "", "")
OkValue(v) == Res("Ok", "", v, "", "")
OkUnit == Res("Ok", "", 0, "", "")
ConnectionClosed == Res("Err", "ConnectionClosed", 0, "", "")
\* Error::Close((Connection, rusqlite::Error)): h is the Connection it carries
CloseError(h, e) == Res("Err", "Close", 0, h, e)
Rusqlite(v, e) == Res("Err", "Rusqlite", v, "", e)
Other(v, e) == Res("Err", "Other", v, "", e)
Panic(text) == Res("Panic", "", 0, "", text)

\* ---- oneshot channel ----------------------------------------------------
NewOneshot == [tx |-> "live", rx |-> "live", val |-> NoResult]
NoOneshot == [tx |-> "none", rx |-> "none", val |-> NoResult]

\* the channel is freed once neither end is left
OneshotFree(c) == IF c.tx # "live" /\ c.rx # "live" THEN NoOneshot ELSE c
\* oneshot::Sender::send: Err(value) when the receiver is gone
OneshotSendOk(c) == c.rx = "live"
\* (mutant) the value of a unit is lost: its sender is dropped without it
OneshotSendLost(c, v) ==
    IF v.v # 0 \/ c.rx # "live"
    THEN OneshotFree([c EXCEPT !.tx = "dropped"])
    ELSE [c EXCEPT !.tx = "sent", !.val = v]
OneshotSend(c, v) ==
    IF c.rx = "live" THEN [c EXCEPT !.tx = "sent", !.val = v]
                     ELSE OneshotFree([c EXCEPT !.tx = "dropped"])
\* (mutant) a discarded message leaves its completion sender alive
OneshotKeepSender(c) == c
\* the sender is dropped without a value (its message was discarded)
OneshotDropSender(c) ==
    IF c.tx = "live" THEN OneshotFree([c EXCEPT !.tx = "dropped"]) ELSE c
OneshotDropReceiver(c) == OneshotFree([c EXCEPT !.rx = "dropped"])
\* receiver.await is ready
OneshotReady(c) == c.tx \in {"sent", "dropped"}

\* ---- Message ------------------------------------------------------------
\* Message::Execute (from call or call_unwrap) or Message::Close, with the
\* id of the op whose oneshot sender it carries
Msg(i, kind) == [id |-> i, kind |-> kind]
IsExecute(m) == m.kind \in {"call", "call_unwrap"}
IsClose(m) == m.kind = "close"
Range(s) == {s[k] : k \in 1..Len(s)}

\* ---- futures ------------------------------------------------------------
NoOp == [kind |-> "none", h |-> "", st |-> "idle"]
NoRet == [id |-> 0, kind |-> "none", h |-> "", retry |-> FALSE, sent |-> FALSE,
          res |-> NoResult, produced |-> NoResult, seen |-> "unseen"]
Awaiting(i) == ops[i].st = "awaiting"
\* op i was issued after some close had returned Ok(())
AfterClose(i) == closeOkAt # 0 /\ i >= closeOkAt
\* op i was issued while no close had been requested
PreClose(i) == firstCloseReq = 0 \/ i < firstCloseReq

\* ---- crossbeam channel --------------------------------------------------
\* the Receiver lives in the worker closure until the thread function ends
ReceiverAlive == wpc # "terminated"
\* number of Sender<Message> values: the one start() holds, every Connection
\* at rest, and the `self` a pending close() future owns
Senders ==
    (IF openSt = "awaiting" THEN 1 ELSE 0)
    + handles["made"] + handles["returned"]
    + Cardinality({i \in OpIds : Awaiting(i) /\ ops[i].kind = "close"})

\* Sender::send on the unbounded channel
Send(q, m) == Append(q, m)
\* (mutant) the newest message is taken first
RecvLast(q) == [msg |-> q[Len(q)], rest |-> SubSeq(q, 1, Len(q) - 1)]
\* Receiver::recv on a non-empty channel
Recv(q) == [msg |-> Head(q), rest |-> Tail(q)]
\* (mutant) the loop ends as soon as every Sender is dropped
DisconnectedIgnoringQueue == Senders = 0
\* Receiver::recv returns Err: nothing queued and every Sender dropped
Disconnected == queue = <<>> /\ Senders = 0

\* ---- the resource (rusqlite::Connection as the worker uses it) ----------
\* leaked: some prepared statement of the connection is not finalized
NoConn == [st |-> "unopened", leaked |-> FALSE]
\* conn.close(): Err((conn, e)) while statements are unfinalized
ConnCloseOk(c) == ~c.leaked
CloseCause == "DatabaseBusy"

\* what a unit does to the connection: "leak" prepares a statement and
\* forgets it, "finalize" finalizes every statement left behind
UnitEffect(unit, c) ==
    CASE unit = "leak" -> [c EXCEPT !.leaked = TRUE]
      [] unit = "finalize" -> [c EXCEPT !.leaked = FALSE]
      [] OTHER -> c
\* what the unit of op i returns
UnitOutcome(unit, i) ==
    CASE unit = "sqlerr" -> Rusqlite(i, "SqlInputError")
      [] unit = "other" -> Other(i, "MySpecificError")
      [] unit = "closederr" -> ConnectionClosed
      [] OTHER -> OkValue(i)

TypeOK ==
    /\ wpc \in {"opening", "recv", "exec", "exiting", "terminated"}
    /\ exitCause \in {"none", "openfail", "opencancel", "closed", "disconnected", "panic"}
    /\ conn.st \in {"unopened", "open", "closed", "dropped"}
    /\ conn.leaked \in BOOLEAN
    /\ Len(queue) <= MaxQueue
    /\ \A m \in Range(queue) \cup running : m.id \in OpIds
    /\ nextOp \in 1..(MaxOps + 1)
    /\ cancels \in 0..MaxCancels
    /\ \A k \in HandleKinds : handles[k] \in 0..MaxHandles
    /\ Senders <= MaxHandles
    /\ \A i \in OpIds : ops[i].st \in {"idle", "awaiting"}
    /\ openSt \in {"awaiting", "returned", "cancelled"}
    /\ closeOkAt \in 0..(MaxOps + 1)
    /\ firstCloseReq \in 0..MaxOps
    /\ closeFailed \in BOOLEAN
    /\ closedAt \in 0..MaxOps

Init ==
    /\ wpc = "opening"
    /\ exitCause = "none"
    /\ conn = NoConn
    /\ queue = <<>>
    /\ running = {}
    /\ ops = [i \in OpIds |-> NoOp]
    /\ chan = [i \in OpIds |-> NoOneshot]
    /\ handles = [k \in HandleKinds |-> 0]
    /\ startChan = NewOneshot
    /\ openSt = "awaiting"
    /\ openRes = NoResult
    /\ nextOp = 1
    /\ cancels = 0
    /\ lastRet = NoRet
    /\ lastStarted = 0
    /\ produced = [i \in OpIds |-> NoResult]
    /\ seen = [i \in OpIds |-> "unseen"]
    /\ closeOkAt = 0
    /\ firstCloseReq = 0
    /\ closeFailed = FALSE
    /\ closedAt = 0
    /\ initErr = ""

\* ---- Connection::open -> start() ------------------------------------------
\* (mutant) the Connection is built whatever the worker reported
HandleAfterStartAlways(v) == 1
\* `.map(|_| Connection { sender })`: a Connection exists only for Ok
HandleAfterStart(v) == IF v.tag = "Ok" THEN 1 ELSE 0

\* the spawned closure: open() failed, report Err(e) and return
WorkerOpenFail(e) ==
    /\ wpc = "opening"
    /\ startChan' = OneshotSend(startChan, Rusqlite(0, e))
    /\ wpc' = "exiting"
    /\ exitCause' = "openfail"
    /\ initErr' = e
    /\ UNCHANGED <<conn, queue, running, ops, chan, handles, openSt,
                   openRes, nextOp, cancels, lastRet, produced, seen,
                   closeOkAt, firstCloseReq, closeFailed, closedAt, lastStarted>>

\* the spawned closure: open() succeeded, report Ok(()) or return if the
\* caller of start() is gone
WorkerOpenOk ==
    /\ wpc = "opening"
    /\ conn' = [st |-> "open", leaked |-> FALSE]
    /\ startChan' = OneshotSend(startChan, OkUnit)
    /\ IF OneshotSendOk(startChan)
       THEN wpc' = "recv" /\ exitCause' = exitCause
       ELSE wpc' = "exiting" /\ exitCause' = "opencancel"
    /\ UNCHANGED <<queue, running, ops, chan, handles, openSt, openRes,
                   nextOp, cancels, lastRet, produced, seen, closeOkAt,
                   firstCloseReq, closeFailed, closedAt, initErr, lastStarted>>

\* result_receiver.await ... .map(..) / .map_err(Error::Rusqlite)
OpenReturn ==
    /\ openSt = "awaiting"
    /\ startChan.tx = "sent"
    /\ openSt' = "returned"
    /\ openRes' = startChan.val
    /\ startChan' = OneshotDropReceiver(startChan)
    /\ handles' = [handles EXCEPT !["made"] = HandleAfterStart(startChan.val)]
    /\ UNCHANGED <<wpc, exitCause, conn, queue, running, ops, chan,
                   nextOp, cancels, lastRet, produced, seen, closeOkAt,
                   firstCloseReq, closeFailed, closedAt, initErr, lastStarted>>

\* the caller drops the future of open() before it completes
OpenCancel ==
    /\ openSt = "awaiting"
    /\ openSt' = "cancelled"
    /\ startChan' = OneshotDropReceiver(startChan)
    /\ UNCHANGED <<wpc, exitCause, conn, queue, running, ops, chan, handles,
                   openRes, nextOp, cancels, lastRet, produced, seen,
                   closeOkAt, firstCloseReq, closeFailed, closedAt, initErr, lastStarted>>

\* ---- Connection: Clone / Drop -------------------------------------------
\* a future of call() borrows the Connection it was made from: a value of
\* kind k can be moved (dropped, or consumed by close) unless it is the only
\* one of its kind and a pending call borrows that kind
Borrowed(k) ==
    /\ handles[k] <= 1
    /\ \E i \in OpIds : Awaiting(i) /\ ops[i].h = k /\ ops[i].kind # "close"

\* #[derive(Clone)]: one more Sender
Clone(k) ==
    /\ handles[k] > 0
    /\ Senders < MaxHandles
    /\ handles' = [handles EXCEPT !["made"] = @ + 1]
    /\ UNCHANGED <<wpc, exitCause, conn, queue, running, ops, chan,
                   startChan, openSt, openRes, nextOp, cancels, lastRet,
                   produced, seen, closeOkAt, firstCloseReq, closeFailed, closedAt,
                   initErr, lastStarted>>

DropHandle(k) ==
    /\ handles[k] > 0
    /\ ~Borrowed(k)
    /\ handles' = [handles EXCEPT ![k] = @ - 1]
    /\ UNCHANGED <<wpc, exitCause, conn, queue, running, ops, chan,
                   startChan, openSt, openRes, nextOp, cancels, lastRet,
                   produced, seen, closeOkAt, firstCloseReq, closeFailed, closedAt,
                   initErr, lastStarted>>

\* ---- Connection::call / Connection::call_unwrap -------------------------
\* `.map_err(|_| Error::ConnectionClosed)?` on the channel send
CallOnSendError == ConnectionClosed
\* (mutant) a vanished completion sender is reported as an application error
CallOnRecvErrorOther == Other(0, "RecvError")
\* `receiver.await.map_err(|_| Error::ConnectionClosed)?`
CallOnRecvError == ConnectionClosed
\* (mutant) call_unwrap maps the failed send as call does
UnwrapOnSendErrorTyped == ConnectionClosed
\* `.expect("database connection should be open")` on the channel send
UnwrapOnSendError == Panic("database connection should be open")
\* `receiver.await.expect(BUG_TEXT)`
UnwrapOnRecvError == Panic(BUG_TEXT)

\* first poll of the future: make the oneshot, send Message::Execute
Call(h, kind) ==
    /\ nextOp <= MaxOps
    /\ Len(queue) < MaxQueue
    /\ handles[h] > 0
    /\ LET i == nextOp IN
       IF ReceiverAlive
       THEN /\ queue' = Send(queue, Msg(i, kind))
            /\ ops' = [ops EXCEPT ![i] = [kind |-> kind, h |-> h, st |-> "awaiting"]]
            /\ chan' = [chan EXCEPT ![i] = NewOneshot]
            /\ UNCHANGED lastRet
       ELSE /\ lastRet' = [NoRet EXCEPT
                             !.id = i, !.kind = kind,
                             !.res = IF kind = "call" THEN CallOnSendError
                                                      ELSE UnwrapOnSendError]
            /\ UNCHANGED <<queue, ops, chan>>
    /\ nextOp' = nextOp + 1
    /\ UNCHANGED <<wpc, exitCause, conn, running, handles, startChan,
                   openSt, openRes, cancels, produced, seen, closeOkAt,
                   firstCloseReq, closeFailed, closedAt, initErr, lastStarted>>

\* receiver.await completes
CallReturn(i) ==
    /\ Awaiting(i)
    /\ ops[i].kind # "close"
    /\ OneshotReady(chan[i])
    /\ lastRet' = [NoRet EXCEPT
                     !.id = i, !.kind = ops[i].kind, !.sent = TRUE,
                     !.produced = produced[i],
                     !.res = IF chan[i].tx = "sent" THEN chan[i].val
                             ELSE IF ops[i].kind = "call" THEN CallOnRecvError
                             ELSE UnwrapOnRecvError]
    /\ ops' = [ops EXCEPT ![i] = NoOp]
    /\ chan' = [chan EXCEPT ![i] = OneshotDropReceiver(chan[i])]
    /\ produced' = [produced EXCEPT ![i] = NoResult]
    /\ UNCHANGED <<wpc, exitCause, conn, queue, running, handles,
                   startChan, openSt, openRes, nextOp, cancels, seen,
                   closeOkAt, firstCloseReq, closeFailed, closedAt, initErr, lastStarted>>

\* (mutant) dropping the future of a call takes its message off the channel
CallCancelDequeues(i) ==
    /\ Awaiting(i)
    /\ ops[i].kind # "close"
    /\ cancels < MaxCancels
    /\ cancels' = cancels + 1
    /\ ops' = [ops EXCEPT ![i] = NoOp]
    /\ chan' = [chan EXCEPT ![i] = NoOneshot]
    /\ produced' = [produced EXCEPT ![i] = NoResult]
    /\ queue' = SelectSeq(queue, LAMBDA m : m.id # i)
    /\ UNCHANGED <<wpc, exitCause, conn, running, handles, startChan, openSt,
                   openRes, nextOp, lastRet, seen, closeOkAt, firstCloseReq,
                   closeFailed, closedAt, initErr, lastStarted>>
\* the caller drops the future while it awaits (select!, timeout, abort)
CallCancel(i) ==
    /\ Awaiting(i)
    /\ ops[i].kind # "close"
    /\ cancels < MaxCancels
    /\ cancels' = cancels + 1
    /\ ops' = [ops EXCEPT ![i] = NoOp]
    /\ chan' = [chan EXCEPT ![i] = OneshotDropReceiver(chan[i])]
    /\ produced' = [produced EXCEPT ![i] = NoResult]
    /\ UNCHANGED <<wpc, exitCause, conn, queue, running, handles,
                   startChan, openSt, openRes, nextOp, lastRet, seen,
                   closeOkAt, firstCloseReq, closeFailed, closedAt, initErr, lastStarted>>

\* ---- Connection::close --------------------------------------------------
\* the two early returns of close()
CloseOnSendError == OkUnit
\* (mutant) a Close message dropped unprocessed is reported as an error
CloseOnRecvErrorClosed == ConnectionClosed
CloseOnRecvError == OkUnit
\* (mutant) close() reports success whatever the worker sent
CloseResultIgnoresError(h, v) == OkUnit
\* `result.unwrap().map_err(|e| Error::Close((self, e)))`
CloseResult(h, v) == IF v.tag = "Ok" THEN OkUnit ELSE CloseError(h, v.cause)
\* a close() has returned r as op number i - 1
NoteCloseOk(r, i) == IF closeOkAt = 0 /\ r.tag = "Ok" THEN i ELSE closeOkAt

\* first poll of the future: make the oneshot, send Message::Close
Close(h) ==
    /\ nextOp <= MaxOps
    /\ Len(queue) < MaxQueue
    /\ handles[h] > 0
    /\ ~Borrowed(h)
    /\ handles' = [handles EXCEPT ![h] = @ - 1]
    /\ LET i == nextOp IN
       /\ firstCloseReq' = IF firstCloseReq = 0 THEN i ELSE firstCloseReq
       /\ IF ReceiverAlive
          THEN /\ queue' = Send(queue, Msg(i, "close"))
               /\ ops' = [ops EXCEPT ![i] = [kind |-> "close", h |-> h, st |-> "awaiting"]]
               /\ chan' = [chan EXCEPT ![i] = NewOneshot]
               /\ UNCHANGED <<lastRet, closeOkAt>>
          ELSE /\ lastRet' = [NoRet EXCEPT
                                !.id = i, !.kind = "close", !.h = h,
                                !.retry = (h = "returned"),
                                !.res = CloseOnSendError, !.seen = "gone"]
               /\ closeOkAt' = NoteCloseOk(CloseOnSendError, i + 1)
               /\ UNCHANGED <<queue, ops, chan>>
    /\ nextOp' = nextOp + 1
    /\ UNCHANGED <<wpc, exitCause, conn, running, startChan, openSt, openRes,
                   cancels, produced, seen, closeFailed, closedAt, initErr, lastStarted>>

\* receiver.await completes
CloseReturn(i) ==
    /\ Awaiting(i)
    /\ ops[i].kind = "close"
    /\ OneshotReady(chan[i])
    /\ LET h == ops[i].h
           r == IF chan[i].tx = "sent" THEN CloseResult(h, chan[i].val)
                                       ELSE CloseOnRecvError
       IN /\ lastRet' = [NoRet EXCEPT
                           !.id = i, !.kind = "close", !.h = h,
                           !.retry = (h = "returned"), !.sent = TRUE,
                           !.res = r, !.seen = seen[i]]
          /\ handles' = IF r.variant = "Close"
                        THEN [handles EXCEPT !["returned"] = @ + 1]
                        ELSE handles
          /\ closeOkAt' = NoteCloseOk(r, nextOp)
    /\ ops' = [ops EXCEPT ![i] = NoOp]
    /\ chan' = [chan EXCEPT ![i] = OneshotDropReceiver(chan[i])]
    /\ seen' = [seen EXCEPT ![i] = "unseen"]
    /\ UNCHANGED <<wpc, exitCause, conn, queue, running, startChan, openSt,
                   openRes, nextOp, cancels, produced, firstCloseReq,
                   closeFailed, closedAt, initErr, lastStarted>>

\* the caller drops the future of close() while it awaits
CloseCancel(i) ==
    /\ Awaiting(i)
    /\ ops[i].kind = "close"
    /\ cancels < MaxCancels
    /\ cancels' = cancels + 1
    /\ ops' = [ops EXCEPT ![i] = NoOp]
    /\ chan' = [chan EXCEPT ![i] = OneshotDropReceiver(chan[i])]
    /\ seen' = [seen EXCEPT ![i] = "unseen"]
    /\ UNCHANGED <<wpc, exitCause, conn, queue, running, handles, startChan,
                   openSt, openRes, nextOp, lastRet, produced, closeOkAt,
                   firstCloseReq, closeFailed, closedAt, initErr, lastStarted>>

\* ---- the worker loop of start() -----------------------------------------
\* (mutant) the next message is taken while a unit still runs
CanRecvWhileExec == wpc \in {"recv", "exec"}
\* the loop is at `receiver.recv()`
CanRecv == wpc = "recv"
\* (mutant) the closure completes the oneshot of the call before it
CompletionOfPrevious(i) ==
    IF i > 1 /\ Awaiting(i - 1) /\ ops[i - 1].kind # "close" THEN i - 1 ELSE i
\* the oneshot sender the closure of op i captured
CompletionOf(i) == i
\* (mutant) the loop ends when a unit has returned an error
AfterExecuteStopOnErr(v) == IF v.tag = "Err" THEN "exiting" ELSE "recv"
\* `Message::Execute(f) => f(&mut conn),`: the arm has no value, the loop
\* goes back to recv() whatever the unit returned
AfterExecute(v) == "recv"
\* (mutant) the loop goes on after a successful conn.close()
AfterCloseOkNoBreak == "recv"
\* `break` after a successful conn.close()
AfterCloseOk == "exiting"

\* Message::Execute(f) => f(&mut conn): the closure starts
WorkerRecvExecute ==
    /\ CanRecv
    /\ queue # <<>>
    /\ IsExecute(Recv(queue).msg)
    /\ queue' = Recv(queue).rest
    /\ running' = running \cup {Recv(queue).msg}
    /\ lastStarted' = Recv(queue).msg.id
    /\ wpc' = "exec"
    /\ UNCHANGED <<exitCause, conn, ops, chan, handles, startChan,
                   openSt, openRes, nextOp, cancels, lastRet, produced, seen,
                   closeOkAt, firstCloseReq, closeFailed, closedAt, initErr>>

\* the closure finishes: `let value = function(conn); let _ = sender.send(value);`
WorkerExecFinish(m, unit) ==
    /\ wpc = "exec"
    /\ m \in running
    /\ unit \in UnitsOf(m.kind)
    /\ conn' = UnitEffect(unit, conn)
    /\ produced' = [produced EXCEPT ![m.id] =
                       IF Awaiting(m.id) THEN UnitOutcome(unit, m.id) ELSE NoResult]
    /\ chan' = [chan EXCEPT ![CompletionOf(m.id)] =
                   OneshotSend(chan[CompletionOf(m.id)], UnitOutcome(unit, m.id))]
    /\ running' = running \ {m}
    /\ wpc' = AfterExecute(UnitOutcome(unit, m.id))
    /\ UNCHANGED <<exitCause, queue, ops, handles, startChan, openSt,
                   openRes, nextOp, cancels, lastRet, seen, closeOkAt,
                   firstCloseReq, closeFailed, closedAt, initErr, lastStarted>>

\* Message::Close(s) => conn.close(), s.send(..).expect(BUG_TEXT)
WorkerRecvClose ==
    /\ CanRecv
    /\ queue # <<>>
    /\ IsClose(Recv(queue).msg)
    /\ LET i == Recv(queue).msg.id IN
       /\ queue' = Recv(queue).rest
       /\ IF ConnCloseOk(conn)
          THEN /\ conn' = [conn EXCEPT !.st = "closed"]
               /\ chan' = [chan EXCEPT ![i] = OneshotSend(chan[i], OkUnit)]
               /\ seen' = [seen EXCEPT ![i] = IF Awaiting(i) THEN "closed" ELSE "unseen"]
               /\ closedAt' = i
               /\ UNCHANGED closeFailed
               /\ IF OneshotSendOk(chan[i])
                  THEN wpc' = AfterCloseOk /\ exitCause' = "closed"
                  ELSE wpc' = "exiting" /\ exitCause' = "panic"
          ELSE /\ conn' = conn
               /\ chan' = [chan EXCEPT ![i] = OneshotSend(chan[i], Rusqlite(0, CloseCause))]
               /\ seen' = [seen EXCEPT ![i] = IF Awaiting(i) THEN "busy" ELSE "unseen"]
               /\ closeFailed' = TRUE
               /\ UNCHANGED closedAt
               /\ IF OneshotSendOk(chan[i])
                  THEN wpc' = "recv" /\ exitCause' = exitCause
                  ELSE wpc' = "exiting" /\ exitCause' = "panic"
    /\ UNCHANGED <<running, ops, handles, startChan, openSt, openRes,
                   nextOp, cancels, lastRet, produced, closeOkAt,
                   firstCloseReq, initErr, lastStarted>>

\* `while let Ok(message) = receiver.recv()` ends: recv() returned Err
WorkerDisconnected ==
    /\ CanRecv
    /\ Disconnected
    /\ wpc' = "exiting"
    /\ exitCause' = "disconnected"
    /\ UNCHANGED <<conn, queue, running, ops, chan, handles, startChan,
                   openSt, openRes, nextOp, cancels, lastRet, produced, seen,
                   closeOkAt, firstCloseReq, closeFailed, closedAt, initErr, lastStarted>>

\* the thread function ends (return, break, end of loop or unwinding): the
\* Receiver is dropped with every message still queued, and conn if it is
\* still owned
WorkerExit ==
    /\ wpc = "exiting"
    /\ wpc' = "terminated"
    /\ queue' = <<>>
    /\ chan' = [i \in OpIds |->
                   IF \E m \in Range(queue) : m.id = i
                   THEN OneshotDropSender(chan[i]) ELSE chan[i]]
    /\ seen' = [i \in OpIds |->
                   IF Msg(i, "close") \in Range(queue) /\ Awaiting(i)
                   THEN "gone" ELSE seen[i]]
    /\ conn' = IF conn.st = "open" THEN [conn EXCEPT !.st = "dropped"] ELSE conn
    /\ UNCHANGED <<exitCause, running, ops, handles, startChan, openSt,
                   openRes, nextOp, cancels, lastRet, produced, closeOkAt,
                   firstCloseReq, closeFailed, closedAt, initErr, lastStarted>>

Worker ==
    \/ \E e \in InitErrors : WorkerOpenFail(e)
    \/ WorkerOpenOk
    \/ WorkerRecvExecute
    \/ \E m \in running, u \in CallUnits \cup UnwrapUnits : WorkerExecFinish(m, u)
    \/ WorkerRecvClose
    \/ WorkerDisconnected
    \/ WorkerExit

Next ==
    \/ Worker
    \/ OpenReturn
    \/ OpenCancel
    \/ \E h \in HandleKinds : Clone(h)
    \/ \E h \in HandleKinds : DropHandle(h)
    \/ \E h \in HandleKinds : Call(h, "call")
    \/ \E h \in HandleKinds : Call(h, "call_unwrap")
    \/ \E i \in OpIds : CallReturn(i)
    \/ \E i \in OpIds : CallCancel(i)
    \/ \E h \in HandleKinds : Close(h)
    \/ \E i \in OpIds : CloseReturn(i)
    \/ \E i \in OpIds : CloseCancel(i)

Spec == Init /\ [][Next]_vars

\* the worker thread is scheduled, and a future that is still awaited is
\* polled once its oneshot is ready
FairSpec ==
    /\ Spec
    /\ WF_vars(Worker)
    /\ WF_vars(OpenReturn)
    /\ \A i \in OpIds : WF_vars(CallReturn(i)) /\ WF_vars(CloseReturn(i))

\* ---- helpers of the properties ------------------------------------------
IsCall(r) == r.kind \in {"call", "call_unwrap"}

\* C1: at most one unit runs on the connection at any time, and the worker
\* takes no message (Execute or Close) off the channel while a unit runs.
C1_MutualExclusion ==
    /\ [](Cardinality(running) <= 1)
    /\ [][Len(queue') < Len(queue) => running = {}]_vars

\* a unit is running while two more messages wait behind it
C1_Witness == Cardinality(running) = 1 /\ Len(queue) >= 2

\* C2: the units are started in the order in which their Execute messages
\* were sent on the channel (op ids number the sends): the channel holds the
\* messages in the order of their sends, the unit that runs is the one
\* started last, and every Execute message still waiting was sent after
\* every unit started so far.
C2_Ordering ==
    /\ \A k1, k2 \in 1..Len(queue) : k1 < k2 => queue[k1].id < queue[k2].id
    /\ \A m \in running : m.id = lastStarted
    /\ \A k \in 1..Len(queue) : IsExecute(queue[k]) => queue[k].id > lastStarted

\* the second unit runs after the first, both callers still await, and a
\* third Execute message waits
C2_Witness ==
    \E m \in running :
        /\ m.id > 1 /\ Awaiting(m.id)
        /\ \E j \in OpIds : j < m.id /\ Awaiting(j) /\ chan[j].tx = "sent"
        /\ \E k \in 1..Len(queue) : IsExecute(queue[k])

\* C3: a unit submitted while no close has been requested is sent on the
\* channel, leaves the channel only by being started, is never started a
\* second time, and has run when its call returns.
C3_ExactlyOnce ==
    /\ []((IsCall(lastRet) /\ PreClose(lastRet.id)) =>
            (lastRet.sent /\ lastRet.produced # NoResult))
    /\ [][\A k \in 1..Len(queue) :
            (IsExecute(queue[k]) /\ PreClose(queue[k].id)
                /\ queue[k].id \notin {queue'[n].id : n \in 1..Len(queue')})
            => queue[k] \in running']_vars
    /\ [][\A m \in running' \ running :
            m.id > lastStarted /\ m.id \notin {queue'[n].id : n \in 1..Len(queue')}]_vars

\* a unit submitted before any close runs although its caller stopped
\* awaiting and every Connection is gone
C3_Witness ==
    \E m \in running :
        /\ PreClose(m.id)
        /\ ~Awaiting(m.id)
        /\ Senders = 0

\* C4: a call whose unit was executed returns exactly the outcome its own unit
\* produced, and no call returns an outcome produced by another unit.
C4_ResultRouting ==
    IsCall(lastRet) =>
        /\ lastRet.produced # NoResult => lastRet.res = lastRet.produced
        /\ lastRet.res.v # 0 => lastRet.res.v = lastRet.id

\* a call has returned the error of its own unit while another caller holds
\* the different outcome of its own unit
C4_Witness ==
    /\ lastRet.kind = "call"
    /\ lastRet.res.variant \in {"Rusqlite", "Other"}
    /\ lastRet.res = lastRet.produced
    /\ \E j \in OpIds :
          /\ Awaiting(j) /\ ops[j].kind = "call"
          /\ chan[j].tx = "sent" /\ chan[j].val = OkValue(j)

\* C5: a call issued after some close has returned Ok returns
\* ConnectionClosed.
C5_CallAfterClose ==
    (lastRet.kind = "call" /\ AfterClose(lastRet.id)) =>
        lastRet.res = ConnectionClosed

\* such a call was sent while the worker had not yet dropped the Receiver
C5_Witness ==
    /\ lastRet.kind = "call" /\ AfterClose(lastRet.id)
    /\ lastRet.sent
    /\ lastRet.res = ConnectionClosed

\* C6: a close issued after some close has returned Ok returns Ok.
C6_CloseIdempotent ==
    (lastRet.kind = "close" /\ AfterClose(lastRet.id)) =>
        lastRet.res = OkUnit

\* such a close had its Close message enqueued and dropped unprocessed
C6_Witness ==
    /\ lastRet.kind = "close" /\ AfterClose(lastRet.id)
    /\ lastRet.sent /\ lastRet.seen = "gone"
    /\ lastRet.res = OkUnit

\* C7: when conn.close() fails the worker stays in its loop with the
\* connection it owns: as long as no close has succeeded and a Connection
\* exists, the worker is running and the resource is open; the close that is
\* still awaited returns Error::Close with its own handle and the cause.
C7_FailedCloseKeepsAlive ==
    /\ (closeFailed /\ conn.st # "closed" /\ Senders # 0)
        => (wpc \in {"recv", "exec"} /\ conn.st = "open")
    /\ (lastRet.kind = "close" /\ lastRet.seen = "busy") =>
           lastRet.res = CloseError(lastRet.h, CloseCause)

\* C8: a close retried on the handle that came back in Error::Close, and
\* reaching the worker when nothing keeps the resource from closing, returns
\* Ok with the resource closed and the worker out of its loop; it returns
\* Error::Close again only if the resource was still busy.
C8_CloseRetry ==
    (lastRet.kind = "close" /\ lastRet.retry) =>
        /\ lastRet.seen = "closed" =>
              /\ lastRet.res = OkUnit
              /\ conn.st = "closed"
              /\ wpc \in {"exiting", "terminated"}
        /\ lastRet.res.variant = "Close" => lastRet.seen = "busy"

\* a close failed, the leaked statement was finalized, and the close retried
\* on the handle that came back has succeeded at the worker
C8_Witness ==
    /\ lastRet.kind = "close" /\ lastRet.retry
    /\ closeFailed
    /\ lastRet.seen = "closed"
    /\ lastRet.res = OkUnit

\* C9: when the initializer fails, open returns that error as
\* Error::Rusqlite, no Connection exists, and the worker leaves without
\* having received or executed a message.
C9_FailedOpen ==
    /\ initErr # "" =>
          /\ wpc \in {"exiting", "terminated"}
          /\ exitCause = "openfail"
          /\ conn.st = "unopened"
          /\ queue = <<>> /\ running = {} /\ lastStarted = 0 /\ nextOp = 1
          /\ \A k \in HandleKinds : handles[k] = 0
    /\ openSt = "returned" =>
          (openRes.tag = "Err" <=> initErr # "")
    /\ (openSt = "returned" /\ initErr # "") =>
          openRes = Rusqlite(0, initErr)

\* open has returned the initializer's error and the worker is gone
C9_Witness ==
    /\ initErr # ""
    /\ openSt = "returned"
    /\ openRes = Rusqlite(0, initErr)
    /\ wpc = "terminated"

\* C10: a call_unwrap issued after some close has returned Ok never has its
\* unit executed, and when it ends it ends in a panic.
C10_UnwrapAfterClose ==
    /\ \A m \in running : m.kind = "call_unwrap" => ~AfterClose(m.id)
    /\ (lastRet.kind = "call_unwrap" /\ AfterClose(lastRet.id)) =>
          /\ lastRet.produced = NoResult
          /\ lastRet.res.tag = "Panic"

\* such a call_unwrap panicked on the channel send
C10_Witness ==
    /\ lastRet.kind = "call_unwrap" /\ AfterClose(lastRet.id)
    /\ ~lastRet.sent
    /\ lastRet.res = Panic("database connection should be open")

\* C11: once a Close message has met a successful conn.close(), the worker
\* is out of its loop and no unit runs; no unit sent behind that Close has
\* been started, a call waiting on such a unit returns ConnectionClosed, and
\* a close waiting behind it returns Ok.
C11_DroppedBehindClose ==
    /\ closedAt # 0 =>
          /\ wpc \in {"exiting", "terminated"}
          /\ running = {}
          /\ lastStarted < closedAt
    /\ (closedAt # 0 /\ IsCall(lastRet) /\ lastRet.id > closedAt) =>
          /\ lastRet.produced = NoResult
          /\ lastRet.kind = "call" => lastRet.res = ConnectionClosed
    /\ (closedAt # 0 /\ lastRet.kind = "close" /\ lastRet.id > closedAt) =>
          lastRet.res = OkUnit

\* a call whose Execute message was queued behind the Close, before that
\* close returned, has returned ConnectionClosed
C11_Witness ==
    /\ closedAt # 0
    /\ lastRet.kind = "call" /\ lastRet.id > closedAt
    /\ lastRet.sent /\ ~AfterClose(lastRet.id)
    /\ lastRet.res = ConnectionClosed

\* C12: a completion send that finds its receiver dropped never stops the
\* worker: the worker never leaves its loop by a panic, and after a unit
\* whose caller stopped awaiting it is back at recv() as after any other.
C12_FireAndForget ==
    /\ [](exitCause # "panic")
    /\ [][\A m \in running :
            (m \notin running' /\ ~OneshotSendOk(chan[m.id]))
            => (wpc' = "recv" /\ exitCause' = exitCause)]_vars

\* C13: a caller that stops awaiting a call does not stop its unit: dropping
\* the future leaves the channel, the running unit and the worker as they
\* are, and the worker, when it reaches an Execute message, starts its unit
\* whether or not its caller still awaits.
C13_NoCancellation ==
    /\ [][\A i \in OpIds :
            (Awaiting(i) /\ ops[i].kind # "close" /\ cancels' # cancels)
            => (queue' = queue /\ running' = running /\ wpc' = wpc
                /\ conn' = conn)]_vars
    /\ [][(wpc = "recv" /\ queue # <<>> /\ IsExecute(Head(queue))
              /\ Len(queue') < Len(queue))
            => (Head(queue) \in running' /\ wpc' = "exec")]_vars

\* the unit of a call whose caller stopped awaiting has run (no future has
\* returned), and the worker has gone on to the unit sent after it, whose
\* caller still awaits
C13_Witness ==
    /\ cancels > 0
    /\ \E m \in running :
          /\ Awaiting(m.id)
          /\ \E j \in OpIds :
                /\ j < m.id /\ j <= lastStarted
                /\ ops[j] = NoOp /\ chan[j] = NoOneshot
    /\ lastRet = NoRet

\* the outcomes call and close hand to their caller
TypedOutcome(r) ==
    \/ r.tag = "Ok"
    \/ r.tag = "Err" /\ r.variant \in {"ConnectionClosed", "Close", "Rusqlite", "Other"}

\* C14: under a fair worker, every call and every close that is awaited
\* eventually stops being pending (it returns unless its caller drops it),
\* and what a call or a close returns is a success value or one typed error.
C14_OneOutcome ==
    /\ \A i \in OpIds : Awaiting(i) ~> ~Awaiting(i)
    /\ [](lastRet.kind \in {"call", "close"} => TypedOutcome(lastRet.res))

\* a call and a close whose messages were still queued when the worker left
\* its loop: the close has returned and the call is ready to return
C14_Witness ==
    /\ wpc = "terminated"
    /\ lastRet.kind = "close" /\ lastRet.sent /\ lastRet.seen = "gone"
    /\ \E i \in OpIds :
          /\ Awaiting(i) /\ ops[i].kind = "call"
          /\ chan[i].tx = "dropped"

\* C15: whenever close returns Ok(()), a conn.close() of the worker has
\* succeeded (for this request or an earlier one).
C15_CloseOkMeansClosed ==
    (lastRet.kind = "close" /\ lastRet.res = OkUnit) =>
        (closedAt # 0 /\ conn.st = "closed")

\* C16: the worker leaves its loop only after a successful conn.close() or
\* with every Sender dropped: while it has opened the resource, some Sender
\* exists and no conn.close() has succeeded, it is in its loop and owns the
\* open resource.
C16_LeavesOnlyOnCloseOrDrop ==
    (conn.st # "unopened" /\ Senders > 0 /\ closedAt = 0) =>
        (wpc \in {"recv", "exec"} /\ conn.st = "open")

\* C17: a unit that returns an error does not stop the loop: when a unit
\* finishes, whatever it returned (Ok, Rusqlite or Other), the worker is back
\* at recv() with the channel, the resource and its exit state as they were.
C17_FailingUnitKeepsLoop ==
    [][\A m \in running :
          m \notin running'
          => (wpc' = "recv" /\ exitCause' = exitCause /\ queue' = queue
              /\ conn'.st = conn.st)]_vars

\* a call has returned the value of its unit, which ran after a unit that
\* returned an error to a caller that still holds it
C17_Witness ==
    /\ lastRet.kind = "call"
    /\ lastRet.res = OkValue(lastRet.id)
    /\ \E j \in OpIds :
          /\ j < lastRet.id
          /\ Awaiting(j) /\ chan[j].tx = "sent"
          /\ chan[j].val.variant \in {"Rusqlite", "Other"}

\* C18: conn.close() succeeds at most once: once it has succeeded for a
\* Close request, the resource stays closed, no later Close request is
\* taken by the worker, and a close sent after that request finds the worker
\* gone.
C18_OneCloseSucceeds ==
    /\ [][closedAt # 0 => (closedAt' = closedAt /\ conn' = conn)]_vars
    /\ [](closedAt # 0 =>
            \A i \in OpIds : i > closedAt => seen[i] \in {"unseen", "gone"})
    /\ []((closedAt # 0 /\ lastRet.kind = "close" /\ lastRet.id > closedAt)
            => lastRet.seen = "gone")

\* a close whose message was queued behind the successful Close, before any
\* close had returned, has found the worker gone
C18_Witness ==
    /\ closedAt # 0
    /\ lastRet.kind = "close" /\ lastRet.id > closedAt
    /\ lastRet.sent /\ ~AfterClose(lastRet.id)
    /\ lastRet.seen = "gone"

\* the resource was opened, every Sender is dropped, and no close was ever
\* requested
DroppedWithoutClose ==
    conn.st # "unopened" /\ Senders = 0 /\ firstCloseReq = 0

C20_ClosedMeansNotExecuted ==
    /\ (lastRet.kind = "call" /\ lastRet.res = ConnectionClosed) =>
          (lastRet.produced = NoResult /\ lastRet.id > lastStarted)
    /\ (IsCall(lastRet) /\ lastRet.sent /\ lastRet.id <= lastStarted) =>
          (lastRet.produced # NoResult /\ lastRet.res = lastRet.produced)

\* C20 (amended): a call that returns a ConnectionClosed its own unit did
\* not return never had its unit started, and a call whose unit was started
\* returns what the unit produced.
C20_LibraryClosedMeansNotExecuted ==
    /\ (lastRet.kind = "call" /\ lastRet.res = ConnectionClosed
           /\ lastRet.produced # ConnectionClosed) =>
          (lastRet.produced = NoResult /\ lastRet.id > lastStarted)
    /\ (IsCall(lastRet) /\ lastRet.sent /\ lastRet.id <= lastStarted) =>
          (lastRet.produced # NoResult /\ lastRet.res = lastRet.produced)

\* units have run, and a call sent after them has returned ConnectionClosed
\* with its message dropped unexecuted
C20_Witness ==
    /\ lastStarted > 0
    /\ lastRet.kind = "call" /\ lastRet.sent
    /\ lastRet.res = ConnectionClosed
    /\ lastRet.produced = NoResult
    /\ lastRet.id > lastStarted

\* C21: once a close() has returned Ok, on any handle, no unit begins to
\* execute: from then on no unit is running, the worker is past its loop,
\* and no step starts a unit, whichever handle submits it.
C21_NoExecAfterReportedClose ==
    /\ [](closeOkAt # 0 => (running = {} /\ wpc \in {"exiting", "terminated"}))
    /\ [][closeOkAt # 0 => (running' = {} /\ lastStarted' = lastStarted
                               /\ wpc' # "exec")]_vars

\* a close has returned Ok while a unit sent before it returned and a unit
\* sent after it, on another handle, are both queued and a handle is left
C21_Witness ==
    /\ closeOkAt # 0
    /\ \E k \in 1..Len(queue) : IsExecute(queue[k]) /\ queue[k].id < closeOkAt
    /\ \E k \in 1..Len(queue) : IsExecute(queue[k]) /\ queue[k].id >= closeOkAt
    /\ \E h \in HandleKinds : handles[h] > 0
====
